---------------------------- MODULE Spec2Model ----------------------------
(***************************************************************************)
(* Log ingestion and live streaming of the log monitor.                    *)
(*                                                                         *)
(* The repository holds two builds of the server around one store and one  *)
(* parser:                                                                 *)
(*   "routes"  src/server/routes.ts      (registerRoutes)                  *)
(*   "prod"    src/unnamed/part_002      (the production server)           *)
(* Both use MemStorage (src/unnamed/part_000) and parseLogLine             *)
(* (src/client/src/lib/log-parser.ts).  The variable server says which     *)
(* build runs.                                                             *)
(*                                                                         *)
(* A source line is modelled by its leading whitespace and its body:       *)
(*   body      stands for (the text after the leading whitespace)          *)
(*   "empty"   nothing (a blank line, possibly only whitespace)            *)
(*   "iso"     2024-01-01 10:00:00,000 main ERROR boom                     *)
(*   "isoBad"  2024-13-45 10:00:00,000 main ERROR boom   (no such date)    *)
(*   "locale"  01.02.24 10:00:00:000 - WARN - svcA - disk low              *)
(*   "at"      at foo.bar(Baz.java:10)                                     *)
(*   "causedBy" Caused by: java.io.IOError: x                              *)
(*   "more"    ... 3 more                                                  *)
(*   "exc"     java.lang.IllegalStateException: bad                        *)
(*   "text"    some random text                                            *)
(* A text value (message, stack trace piece) is a record saying which part *)
(* of which line it is, so that trimming and capturing are visible.        *)
(***************************************************************************)
EXTENDS Integers, Sequences, FiniteSets, TLC

VARIABLES
    server,      \* "routes" | "prod": the build that runs; "exited" once
                 \* an uncaught exception has ended the process
    logFiles,    \* MemStorage.logFiles   : fileId -> [status]
    logEntries,  \* MemStorage.logEntries : fileId -> sequence of entries
    created,     \* per file: how many entry ids randomUUID has handed out
    up,          \* the upload requests: handler position and locals
    clients,     \* wss.clients, in insertion order
    conn,        \* per connection: readyState and subscribedFile
    inbox,       \* per connection: the messages the server sent to it
    lastRead,    \* the latest read request with its response (<<>>: none yet)
    client,      \* the browser's LogWebSocket objects and their network
    page         \* the state of the LogMonitor component

vars == <<server, logFiles, logEntries, created, up, clients, conn, inbox,
          lastRead, client, page>>

-----------------------------------------------------------------------------
(* Bounds of the model *)

\* the longest uploaded file, in lines
MaxLines == 3
\* the largest limit / offset a read request asks for
MaxLimit == 2
\* how many subscribe messages the connections send
MaxSubs == 3
\* how many times the client loses an open socket
MaxCloses == 2
\* the longest uploaded file in the specifications with several actors
\* (two uploads, or an upload and connections that come and go)
MaxLinesTwo == 2

\* the upload requests, in the order they arrive; each creates one file and
\* the file's id (a fresh randomUUID) is named after the request
UploadSeq == <<"f1", "f2">>
Uploads == {UploadSeq[i] : i \in 1..Len(UploadSeq)}
\* the LogWebSocket objects the page makes, in the order it makes them
ClientSeq == <<"A", "B">>
ClientObjs == {ClientSeq[i] : i \in 1..Len(ClientSeq)}
\* the WebSocket connections, in the order they connect
ConnSeq == <<"c1", "c2">>
Conns == {ConnSeq[i] : i \in 1..Len(ConnSeq)}
\* subscribedFile of a connection that never subscribed
NoFile == "undefined"

\* the server process runs
Running == server \in {"routes", "prod"}

-----------------------------------------------------------------------------
(* The state of the browser's client (LogWebSocket) *)

\* reconnectDelay and maxReconnectDelay, in milliseconds
ReconnectDelay == 1000
MaxReconnectDelay == 30000

\* the close codes of a close event: 1000 normal, 1001 going away, 1006
\* abnormal
CloseCodes == {1000, 1001, 1006}

\* client[o]: the fields of the LogWebSocket object o
\*   ws                "null" (no socket yet) or the readyState of this.ws:
\*                     "connecting", "open", "closed"
\*   reconnectTimeout  "null", "pending" (the id of a timer that waits) or
\*                     "fired" (the id of a timer that has run: the callback
\*                     does not reset the field)
\*   currentDelay      the delay of the next timer
\* and, as history and environment,
\*   mounted           the page has made the object and called connect()
\*   status            the last value passed to onStatusChange
\*   code              the code of the last close event (0: none yet)
\*   delays            the delays of the timers set since the last open
\*   closes            how many times an open socket was lost
\*   reachable         whether the server accepts connections now
\*   timers            how many timers set by scheduleReconnect wait
\*   sockets           how many sockets made by connect() have not had their
\*                     close event yet (their handlers can still run)
\*   old               the socket disconnect() closed and let go of, while
\*                     its close event is still to come: "none", or
\*                     "fromConnecting" / "fromOpen" after the readyState it
\*                     had when close(1000) was called
\*   disconnected      disconnect() has been called
\*   wanted            the fileName of the latest subscribeToFile call
\*   frames            the subscribe frames sent on the socket this.ws that
\*                     the server has not read yet
\*   serverSub         subscribedFile of the server's connection for the
\*                     socket this.ws
NewClient ==
    [ws |-> "null", reconnectTimeout |-> "null", currentDelay |-> ReconnectDelay,
     mounted |-> FALSE, status |-> "none", code |-> 0, delays |-> <<>>,
     closes |-> 0, reachable |-> TRUE, timers |-> 0, sockets |-> 0,
     old |-> "none", disconnected |-> FALSE, wanted |-> NoFile,
     frames |-> <<>>, serverSub |-> NoFile]

\* page: the state of the LogMonitor component that its effects read
\*   currentFile   the id of currentFile (NoFile: null, as at mount)
\*   wsConnection  the object in the wsConnection state ("null" at mount);
\*                 setWsConnection takes effect with the next render
NewPage == [currentFile |-> NoFile, wsConnection |-> "null"]

-----------------------------------------------------------------------------
(* Text values *)

Line(lead, body) == [lead |-> lead, body |-> body]

EmptyText == [kind |-> "empty", lead |-> 0, body |-> "empty"]
\* the whole line as a string
LineText(l) == [kind |-> "line", lead |-> l.lead, body |-> l.body]
\* the message group a structural pattern captures from the line
GroupText(l) == [kind |-> "msg", lead |-> 0, body |-> l.body]
\* the newline between two pieces of a stack trace
NewlineText == [kind |-> "nl", lead |-> 0, body |-> "empty"]

\* String.prototype.trim: the leading (and trailing) whitespace goes
Trim(l) == [l EXCEPT !.lead = 0]
\* truthiness of a string: the empty string is falsy
Truthy(l) == ~(l.lead = 0 /\ l.body = "empty")

-----------------------------------------------------------------------------
(* parseLogLine *)

\* TOMCAT_PATTERNS[0]: ^(date time,ms)\s+main\s+(LEVEL)\s+(.+)$
Pattern1(l) == l.lead = 0 /\ l.body \in {"iso", "isoBad"}
\* TOMCAT_PATTERNS[1]: ^(dd.mm.yy time:ms)\s*-\s*(LEVEL)\s*-\s*(logger)\s*-\s*(.+)$
Pattern2(l) == l.lead = 0 /\ l.body = "locale"
\* TOMCAT_PATTERNS[2]: ^\s+(at\s+.+|Caused\s+by:.+|\.{3}\s+\d+\s+more|\s+.*Exception.*)$
Pattern3(l) ==
    \/ l.lead >= 1 /\ l.body \in {"at", "causedBy", "more"}
    \/ l.lead >= 2 /\ l.body = "exc"

\* match.length of line.match(TOMCAT_PATTERNS[i]); 0 when there is no match
MatchLength(i, l) ==
    CASE i = 1 -> IF Pattern1(l) THEN 4 ELSE 0
      [] i = 2 -> IF Pattern2(l) THEN 5 ELSE 0
      [] OTHER -> IF Pattern3(l) THEN 2 ELSE 0

\* new Date(string): "Date" or "InvalidDate"
ParseDate(l) == IF l.body = "isoBad" THEN "InvalidDate" ELSE "Date"
\* match[2].toUpperCase()
LevelOf(l) == IF l.body = "locale" THEN "WARN" ELSE "ERROR"

Parsed(n, ts, level, logger, message, stack) ==
    [lineNumber |-> n, timestamp |-> ts, level |-> level, logger |-> logger,
     message |-> message, stackTrace |-> stack]

\* The first pattern, in order, whose match has length 4 or 5; 0 if none.
\* (A match of the third pattern has length 2 and returns nothing in the loop.)
FirstStructural(l) ==
    IF MatchLength(1, l) = 4 THEN 1
    ELSE IF MatchLength(2, l) = 5 THEN 2
    ELSE 0

\* (mutant) a parser that numbers the lines with a counter that all uploads
\* share
parseLogLineSharedCounter(line, lineNumber) ==
    LET l == Trim(line)
        p == FirstStructural(l)
        n == 1 + created[UploadSeq[1]] + created[UploadSeq[2]]
    IN  IF p = 1 THEN
            Parsed(n, ParseDate(l), LevelOf(l), "main", GroupText(l), <<>>)
        ELSE IF p = 2 THEN
            Parsed(n, ParseDate(l), LevelOf(l), "svcA", GroupText(l), <<>>)
        ELSE Parsed(n, "Date", "INFO", "", LineText(l), <<>>)

\* (mutant) a parser whose fallback record carries the line as it is, not
\* trimmed
parseLogLineRawFallback(line, lineNumber) ==
    LET l == Trim(line)
        p == FirstStructural(l)
    IN  IF p = 1 THEN
            Parsed(lineNumber, ParseDate(l), LevelOf(l), "main", GroupText(l), <<>>)
        ELSE IF p = 2 THEN
            Parsed(lineNumber, ParseDate(l), LevelOf(l), "svcA", GroupText(l), <<>>)
        ELSE IF MatchLength(3, l) > 0 THEN
            Parsed(lineNumber, "Date", "DEBUG", "", EmptyText, <<LineText(l)>>)
        ELSE
            Parsed(lineNumber, "Date", "INFO", "", LineText(line), <<>>)

\* parseLogLine(line, lineNumber) for a line that is not blank (the callers
\* test line.trim() first, so 'Empty line' is never thrown).  The stack trace
\* is a sequence of pieces; <<>> is the absent (undefined) stack trace.
parseLogLine(line, lineNumber) ==
    LET l == Trim(line)
        p == FirstStructural(l)
    IN  IF p = 1 THEN
            Parsed(lineNumber, ParseDate(l), LevelOf(l), "main", GroupText(l), <<>>)
        ELSE IF p = 2 THEN
            Parsed(lineNumber, ParseDate(l), LevelOf(l), "svcA", GroupText(l), <<>>)
        ELSE IF MatchLength(3, l) > 0 THEN
            Parsed(lineNumber, "Date", "DEBUG", "", EmptyText, <<LineText(l)>>)
        ELSE
            Parsed(lineNumber, "Date", "INFO", "", LineText(l), <<>>)

-----------------------------------------------------------------------------
(* MemStorage *)

\* this.logEntries.get(fileName) || []
EntriesOf(le, fileName) == IF fileName \in DOMAIN le THEN le[fileName] ELSE <<>>

\* the entry createLogEntry builds: the insert's fields, a fresh id, and
\* logger / stackTrace defaulted to null ("" and <<>> here)
NewEntry(insertEntry, id) ==
    [id |-> id, fileName |-> insertEntry.fileName,
     lineNumber |-> insertEntry.lineNumber,
     timestamp |-> insertEntry.timestamp, level |-> insertEntry.level,
     logger |-> insertEntry.logger, message |-> insertEntry.message,
     stackTrace |-> insertEntry.stackTrace]

\* (mutant) a store that puts a new entry at the head of the file's list
createLogEntryPrepend(le, entry) ==
    [g \in DOMAIN le \cup {entry.fileName} |->
        IF g = entry.fileName THEN <<entry>> \o EntriesOf(le, g) ELSE le[g]]

\* (mutant) a store that keeps the entries of all files in the list of the
\* first file
createLogEntryOneList(le, entry) ==
    [g \in DOMAIN le \cup {UploadSeq[1]} |->
        IF g = UploadSeq[1] THEN Append(EntriesOf(le, g), entry) ELSE le[g]]

\* createLogEntry: push the entry onto the file's list (making the list
\* when the map has none)
createLogEntry(le, entry) ==
    [g \in DOMAIN le \cup {entry.fileName} |->
        IF g = entry.fileName THEN Append(EntriesOf(le, g), entry) ELSE le[g]]

\* (mutant) createLogFile that drops the status it is given
createLogFileNoStatus(lf, id, status) ==
    [g \in DOMAIN lf \cup {id} |-> IF g = id THEN [status |-> "active"] ELSE lf[g]]

\* createLogFile: status is insertFile.status || "active"
createLogFile(lf, id, status) ==
    [g \in DOMAIN lf \cup {id} |->
        IF g = id THEN [status |-> IF status = "" THEN "active" ELSE status]
        ELSE lf[g]]

\* updateLogFileStatus: nothing happens when the file is not there
updateLogFileStatus(lf, id, status) ==
    IF id \in DOMAIN lf THEN [lf EXCEPT ![id].status = status] ELSE lf

\* An assignment to a field of an entry object the store still holds shows
\* in the store: createLogEntry returns the very object it pushed.
AssignStackTrace(le, id, stack) ==
    [g \in DOMAIN le |->
        [i \in 1..Len(le[g]) |->
            IF le[g][i].id = id THEN [le[g][i] EXCEPT !.stackTrace = stack]
            ELSE le[g][i]]]

\* (mutant) a clear that empties the list of every file
clearLogEntriesAll(le, fileName) ==
    [g \in DOMAIN le \cup {fileName} |-> <<>>]

\* clearLogEntries: this.logEntries.set(fileName, [])
clearLogEntries(le, fileName) ==
    [g \in DOMAIN le \cup {fileName} |-> IF g = fileName THEN <<>> ELSE le[g]]

\* deleteLogFile: the key goes from a map
MapDelete(m, id) == [g \in DOMAIN m \ {id} |-> m[g]]

\* entries.filter(e => e.level.toUpperCase() === level).length
RECURSIVE FilterLevelLength(_, _)
FilterLevelLength(entries, level) ==
    IF entries = <<>> THEN 0
    ELSE (IF Head(entries).level = level THEN 1 ELSE 0)
         + FilterLevelLength(Tail(entries), level)

\* (mutant) statistics that count every record as an error
getLogStatisticsAllErrors(le, fileName) ==
    [total |-> Len(EntriesOf(le, fileName)),
     errors |-> Len(EntriesOf(le, fileName)),
     warnings |-> FilterLevelLength(EntriesOf(le, fileName), "WARN")]

\* getLogStatistics
getLogStatistics(le, fileName) ==
    [total |-> Len(EntriesOf(le, fileName)),
     errors |-> FilterLevelLength(EntriesOf(le, fileName), "ERROR"),
     warnings |-> FilterLevelLength(EntriesOf(le, fileName), "WARN")]

-----------------------------------------------------------------------------
(* broadcast *)

\* client.send of ws (version 8, which exports WebSocketServer): on an OPEN
\* socket it delivers; on a socket of the server that is not OPEN (CLOSING
\* or CLOSED; a socket of the server is never CONNECTING) it drops the
\* message and returns, without an error.
SendDelivers(c) == conn[c].state = "open"

\* (mutant) a broadcast whose send throws on a socket that is not open: the
\* error ends the forEach
RECURSIVE BroadcastFromThrows(_, _)
BroadcastFromThrows(cs, fileName) ==
    IF cs = <<>> THEN [to |-> {}, failed |-> {}, threw |-> FALSE]
    ELSE LET c == Head(cs) IN
         IF conn[c].subscribedFile = fileName THEN
             IF ~SendDelivers(c) THEN [to |-> {}, failed |-> {c}, threw |-> TRUE]
             ELSE LET rest == BroadcastFromThrows(Tail(cs), fileName) IN
                  [to |-> {c} \cup rest.to, failed |-> rest.failed,
                   threw |-> rest.threw]
         ELSE BroadcastFromThrows(Tail(cs), fileName)

\* (mutant) a broadcast that does not test subscribedFile
RECURSIVE BroadcastFromAll(_, _)
BroadcastFromAll(cs, fileName) ==
    IF cs = <<>> THEN [to |-> {}, failed |-> {}, threw |-> FALSE]
    ELSE LET c == Head(cs)
             rest == BroadcastFromAll(Tail(cs), fileName)
         IN  [to |-> (IF SendDelivers(c) THEN {c} ELSE {}) \cup rest.to,
              failed |-> (IF SendDelivers(c) THEN {} ELSE {c}) \cup rest.failed,
              threw |-> rest.threw]

\* (mutant) a broadcast for which a subscription lasts when a later
\* subscribe names another file
RECURSIVE BroadcastFromKeepsPrev(_, _)
BroadcastFromKeepsPrev(cs, fileName) ==
    IF cs = <<>> THEN [to |-> {}, failed |-> {}, threw |-> FALSE]
    ELSE LET c == Head(cs) IN
         IF fileName \in {conn[c].subscribedFile, conn[c].prev} THEN
             LET rest == BroadcastFromKeepsPrev(Tail(cs), fileName) IN
             [to |-> (IF SendDelivers(c) THEN {c} ELSE {}) \cup rest.to,
              failed |-> (IF SendDelivers(c) THEN {} ELSE {c}) \cup rest.failed,
              threw |-> rest.threw]
         ELSE BroadcastFromKeepsPrev(Tail(cs), fileName)

\* wss.clients.forEach from the clients in cs on: who got the message, for
\* whom send was called without delivering (the message was dropped), and
\* whether a send threw (which would end the forEach; send never does)
RECURSIVE BroadcastFrom(_, _)
BroadcastFrom(cs, fileName) ==
    IF cs = <<>> THEN [to |-> {}, failed |-> {}, threw |-> FALSE]
    ELSE LET c == Head(cs) IN
         IF conn[c].subscribedFile = fileName THEN
             LET rest == BroadcastFrom(Tail(cs), fileName) IN
             [to |-> (IF SendDelivers(c) THEN {c} ELSE {}) \cup rest.to,
              failed |-> (IF SendDelivers(c) THEN {} ELSE {c}) \cup rest.failed,
              threw |-> rest.threw]
         ELSE BroadcastFrom(Tail(cs), fileName)

broadcast(fileName) == BroadcastFrom(clients, fileName)

\* the connected clients (socket OPEN) whose subscription is fileName
LiveSubscribers(fileName) ==
    {c \in Conns : conn[c].state = "open" /\ conn[c].subscribedFile = fileName}

\* the record of one broadcast call: whom it reached, whom it tried to reach
\* in vain, and whether it threw
Pub(fileName, entry, b) ==
    [fileName |-> fileName, entry |-> entry, to |-> b.to, failed |-> b.failed,
     threw |-> b.threw]

LogEntryMsg(entry) == [type |-> "logEntry", fileName |-> entry.fileName, data |-> <<entry>>]
StatusMsg == [type |-> "status", fileName |-> NoFile, data |-> <<>>]
SubscribedMsg(fileName) == [type |-> "subscribed", fileName |-> fileName, data |-> <<>>]

\* the messages a sequence of broadcasts puts into connection c's inbox
RECURSIVE Delivered(_, _)
Delivered(ps, c) ==
    IF ps = <<>> THEN <<>>
    ELSE (IF c \in Head(ps).to THEN <<LogEntryMsg(Head(ps).entry)>> ELSE <<>>)
         \o Delivered(Tail(ps), c)

-----------------------------------------------------------------------------
(* POST /api/upload *)

\* An upload request's handler: where it stands, its locals, and, as
\* history, what its latest pass of the loop did.
\*   pc: "idle" (not yet arrived), "rejected" (400, no file), "created"
\*   (createLogFile done), "loop" (in the line loop, between two passes),
\*   "send" (at the await of the pass's createLogEntry: the record is stored,
\*   its broadcast is still to come), "resend" (routes.ts, at the await of
\*   the catch block's createLogEntry), "unlink" (status set, before
\*   fs.unlinkSync), "done" (200 sent), "failed" (500 sent)
\*   pending: the record createLogEntry has stored and the handler will
\*   broadcast when it resumes (<<>> if none)
\*   pubs: the broadcast calls of the latest pass that made one
\*   stored, merged: how many records the latest pass stored, and how many
\*   stack traces it extended
\*   fault: a file-system call or a broadcast has thrown during this
\*   request
IdleUpload ==
    [pc |-> "idle", lines |-> <<>>, idx |-> 1, lineNumber |-> 1,
     processedCount |-> 0, errorCount |-> 0, lastEntry |-> <<>>,
     pending |-> <<>>, pubs |-> <<>>, stored |-> 0, merged |-> 0,
     fault |-> FALSE]

\* the id randomUUID gives the k-th entry made for a file
EntryId(fileName, k) == [file |-> fileName, n |-> k]

\* what the handler did from one await to the next: entries pushed (in
\* order), an in-place assignment of a stored entry's stackTrace (<<>> if
\* none), the broadcasts (in order), the counters' increments, lastEntry,
\* where the handler stands then (next: "loop" when the pass is over,
\* "failed" when an error left the loop) and the record that waits for its
\* broadcast
LineResult(entries, patch, ps, lineInc, procInc, errInc, last, next, pending) ==
    [entries |-> entries, patch |-> patch, pubs |-> ps, lineInc |-> lineInc,
     procInc |-> procInc, errInc |-> errInc, lastEntry |-> last, next |-> next,
     pending |-> pending]

\* a blank line: if (line.trim()) is false, nothing happens
SkipLine(u) == LineResult(<<>>, <<>>, <<>>, 0, 0, 0, up[u].lastEntry, "loop", <<>>)

\* routes.ts, a pass of the for loop over a line that is not blank:
\*   try   { parsed; logEntry = await createLogEntry(parsed); broadcast }
\*   catch { errorCount++; logEntry = await createLogEntry(INFO, message: line);
\*           broadcast }
\*   lineNumber++
\* RoutesLine goes up to the first await: the record is stored.
RoutesLine(u, line) ==
    LET e1 == NewEntry(parseLogLine(line, up[u].lineNumber) @@ [fileName |-> u],
                       EntryId(u, created[u] + 1))
    IN  LineResult(<<e1>>, <<>>, <<>>, 0, 0, 0, <<>>, "send", <<e1>>)

\* routes.ts after the first await: the broadcast of the record; when it
\* throws, the catch block counts the error and stores the fallback record,
\* up to its await.  (With the parser, MemStorage and ws as they are nothing
\* in the try block throws for a line that is not blank.)
RoutesSend(u, line) ==
    LET b1 == broadcast(u)
        e2 == NewEntry(Parsed(up[u].lineNumber, "Date", "INFO", "", LineText(line), <<>>)
                          @@ [fileName |-> u],
                       EntryId(u, created[u] + 1))
    IN  IF ~b1.threw THEN
            LineResult(<<>>, <<>>, <<Pub(u, up[u].pending[1], b1)>>, 1, 0, 0, <<>>,
                       "loop", <<>>)
        ELSE
            LineResult(<<e2>>, <<>>, <<Pub(u, up[u].pending[1], b1)>>, 0, 0, 1, <<>>,
                       "resend", <<e2>>)

\* routes.ts after the await of the catch block: the broadcast of the
\* fallback record; an error of it leaves the loop (outer catch)
RoutesResend(u) ==
    LET b2 == broadcast(u)
    IN  LineResult(<<>>, <<>>, <<Pub(u, up[u].pending[1], b2)>>,
                   IF b2.threw THEN 0 ELSE 1, 0, 0, <<>>,
                   IF b2.threw THEN "failed" ELSE "loop", <<>>)

\* (mutant) part_002's loop body without its try/catch: the RangeError of
\* toISOString leaves the loop
ProdLineNoCatch(u, line) ==
    LET parsed == parseLogLine(line, up[u].lineNumber)
        e      == NewEntry([parsed EXCEPT !.timestamp = "string"] @@ [fileName |-> u],
                           EntryId(u, created[u] + 1))
    IN  IF parsed.timestamp = "InvalidDate" THEN
            LineResult(<<>>, <<>>, <<>>, 0, 0, 0, up[u].lastEntry, "failed", <<>>)
        ELSE
            LineResult(<<e>>, <<>>, <<>>, 0, 0, 0, up[u].lastEntry, "send", <<e>>)

\* part_002, a pass of the for loop over a line that is not blank:
\*   try { parsed;
\*         if (parsed.stackTrace) { if (lastEntry) { lastEntry.stackTrace = ...;
\*               await storage.updateLogEntry(lastEntry); broadcast } }
\*         else { lastEntry = await createLogEntry(parsed, timestamp: toISOString);
\*                broadcast }
\*         processedCount++ }
\*   catch { errorCount++ }
\*   lineNumber++
\* MemStorage has no updateLogEntry: the call throws a TypeError after the
\* assignment.  toISOString throws a RangeError on an invalid Date.  Both
\* happen before an await, and so does a pass that finds no lastEntry.
\* Otherwise ProdLine goes up to the await: the record is stored.
ProdLine(u, line) ==
    LET parsed == parseLogLine(line, up[u].lineNumber)
        last   == up[u].lastEntry
        e      == NewEntry([parsed EXCEPT !.timestamp = "string"] @@ [fileName |-> u],
                           EntryId(u, created[u] + 1))
    IN  IF parsed.stackTrace # <<>> THEN
            IF last # <<>> THEN
                LET merged == [last[1] EXCEPT
                                 !.stackTrace = @ \o <<NewlineText>> \o parsed.stackTrace]
                IN  LineResult(<<>>, <<merged>>, <<>>, 1, 0, 1, <<merged>>, "loop", <<>>)
            ELSE LineResult(<<>>, <<>>, <<>>, 1, 1, 0, last, "loop", <<>>)
        ELSE IF parsed.timestamp = "InvalidDate" THEN
            LineResult(<<>>, <<>>, <<>>, 1, 0, 1, last, "loop", <<>>)
        ELSE
            LineResult(<<e>>, <<>>, <<>>, 0, 0, 0, last, "send", <<e>>)

\* part_002 after the await: lastEntry is the stored record; its broadcast;
\* processedCount++, or errorCount++ when the broadcast threw
ProdSend(u) ==
    LET b == broadcast(u)
    IN  LineResult(<<>>, <<>>, <<Pub(u, up[u].pending[1], b)>>, 1,
                   IF b.threw THEN 0 ELSE 1, IF b.threw THEN 1 ELSE 0,
                   up[u].pending, "loop", <<>>)

\* the loop body of the build that runs, up to its first await
HandleLine(u, line) ==
    IF ~Truthy(Trim(line)) THEN SkipLine(u)
    ELSE IF server = "routes" THEN RoutesLine(u, line)
    ELSE ProdLine(u, line)

\* the loop body of the build that runs, from an await on
HandleSend(u, line) ==
    IF server = "prod" THEN ProdSend(u)
    ELSE IF up[u].pc = "send" THEN RoutesSend(u, line)
    ELSE RoutesResend(u)

RECURSIVE PushAll(_, _)
PushAll(le, es) ==
    IF es = <<>> THEN le ELSE PushAll(createLogEntry(le, Head(es)), Tail(es))

\* the request arrives: without a file it is answered 400; otherwise the
\* LogFile is created with status "processing"
UploadBegin(u, hasFile) ==
    /\ Running
    /\ up[u].pc = "idle"
    /\ \A i \in 1..Len(UploadSeq) :
          UploadSeq[i] = u => \A j \in 1..(i-1) : up[UploadSeq[j]].pc # "idle"
    /\ IF hasFile
       THEN /\ logFiles' = createLogFile(logFiles, u, "processing")
            /\ up' = [up EXCEPT ![u].pc = "created"]
       ELSE /\ up' = [up EXCEPT ![u].pc = "rejected"]
            /\ UNCHANGED logFiles
    /\ UNCHANGED <<server, logEntries, created, clients, conn,
                   inbox, lastRead, client, page>>

\* fs.readFileSync, the decoding and split("\n"): the lines of the file, or
\* an error that the outer catch answers with 500
UploadRead(u, content, ok) ==
    /\ Running
    /\ up[u].pc = "created"
    /\ up' = [up EXCEPT ![u].pc = IF ok THEN "loop" ELSE "failed",
                        ![u].lines = IF ok THEN content ELSE <<>>,
                        ![u].fault = ~ok]
    /\ UNCHANGED <<server, logFiles, logEntries, created, clients,
                   conn, inbox, lastRead, client, page>>

\* the for loop takes the next line and runs its body up to the first
\* await, or to the end of the pass when there is none
UploadLine(u) ==
    /\ Running
    /\ up[u].pc = "loop"
    /\ up[u].idx <= Len(up[u].lines)
    /\ LET r == HandleLine(u, up[u].lines[up[u].idx])
           patched == IF r.patch = <<>> THEN logEntries
                      ELSE AssignStackTrace(logEntries, r.patch[1].id,
                                            r.patch[1].stackTrace)
       IN  /\ logEntries' = PushAll(patched, r.entries)
           /\ created' = [created EXCEPT ![u] = @ + Len(r.entries)]
           /\ up' = [up EXCEPT
                  ![u].pc = r.next,
                  ![u].idx = IF r.next = "loop" THEN @ + 1 ELSE @,
                  ![u].lineNumber = @ + r.lineInc,
                  ![u].processedCount = @ + r.procInc,
                  ![u].errorCount = @ + r.errInc,
                  ![u].lastEntry = r.lastEntry,
                  ![u].pending = r.pending,
                  ![u].stored = Len(r.entries),
                  ![u].merged = Len(r.patch)]
    /\ UNCHANGED <<server, logFiles, clients, conn, inbox,
                   lastRead, client, page>>

\* the handler resumes after the await of createLogEntry: the broadcast of
\* the stored record and the rest of the pass, up to its next await
UploadSend(u) ==
    /\ Running
    /\ up[u].pc \in {"send", "resend"}
    /\ LET r == HandleSend(u, up[u].lines[up[u].idx])
       IN  /\ logEntries' = PushAll(logEntries, r.entries)
           /\ created' = [created EXCEPT ![u] = @ + Len(r.entries)]
           /\ inbox' = [c \in Conns |-> inbox[c] \o Delivered(r.pubs, c)]
           /\ up' = [up EXCEPT
                  ![u].pc = r.next,
                  ![u].idx = IF r.next = "loop" THEN @ + 1 ELSE @,
                  ![u].lineNumber = @ + r.lineInc,
                  ![u].processedCount = @ + r.procInc,
                  ![u].errorCount = @ + r.errInc,
                  ![u].lastEntry = r.lastEntry,
                  ![u].pending = r.pending,
                  ![u].pubs = IF up[u].pc = "send" THEN r.pubs ELSE @ \o r.pubs,
                  ![u].stored = @ + Len(r.entries),
                  ![u].fault = @ \/ \E i \in 1..Len(r.pubs) : r.pubs[i].threw]
    /\ UNCHANGED <<server, logFiles, clients, conn, lastRead,
                   client, page>>

\* after the loop: updateLogFileStatus(id, "active")
UploadFinish(u) ==
    /\ Running
    /\ up[u].pc = "loop"
    /\ up[u].idx > Len(up[u].lines)
    /\ logFiles' = updateLogFileStatus(logFiles, u, "active")
    /\ up' = [up EXCEPT ![u].pc = "unlink"]
    /\ UNCHANGED <<server, logEntries, created, clients, conn,
                   inbox, lastRead, client, page>>

\* fs.unlinkSync(filePath), then the 200 answer; an error of unlinkSync is
\* answered 500 by the outer catch
UploadCleanup(u, ok) ==
    /\ Running
    /\ up[u].pc = "unlink"
    /\ up' = [up EXCEPT ![u].pc = IF ok THEN "done" ELSE "failed",
                        ![u].fault = @ \/ ~ok]
    /\ UNCHANGED <<server, logFiles, logEntries, created, clients,
                   conn, inbox, lastRead, client, page>>

\* No upload handler stands between its first statement and its answer.
\* Every await of the handler is on a promise that MemStorage has settled
\* already, so the handler runs on in microtasks, from its first statement
\* to its answer, before Node takes the next request or message.
Quiet == \A u \in Uploads : up[u].pc \in {"idle", "rejected", "done", "failed"}

-----------------------------------------------------------------------------
(* The ingestion specification: one upload, no connection                  *)

\* the lines the uploaded files are made of
BlankLine == Line(1, "empty")
IsoLine == Line(0, "iso")
IsoBadLine == Line(0, "isoBad")
LocaleLine == Line(0, "locale")
AtLine == Line(2, "at")
TextLine == Line(0, "text")
PaddedTextLine == Line(1, "text")
InputLines ==
    {BlankLine, IsoLine, IsoBadLine, LocaleLine, AtLine, TextLine, PaddedTextLine}

RECURSIVE SeqsUpTo(_, _)
SeqsUpTo(S, n) ==
    IF n = 0 THEN {<<>>}
    ELSE LET shorter == SeqsUpTo(S, n - 1)
         IN  shorter \cup {Append(s, x) : s \in shorter, x \in S}

Contents == SeqsUpTo(InputLines, MaxLines)

InitStore ==
    /\ logFiles = <<>>
    /\ logEntries = <<>>
    /\ created = [u \in Uploads |-> 0]
    /\ up = [u \in Uploads |-> IdleUpload]
    /\ lastRead = <<>>

\* conn[c]: state is "new" (not yet connected), "open", "closing" (the
\* socket is no longer OPEN, the client is still in wss.clients) or "closed"
\* (the 'close' event came, ws took it out of wss.clients); subscribedFile;
\* and, as history, prev (the subscription the latest subscribe replaced),
\* subs (how many subscribe messages it sent) and raised (an error left its
\* message handler).
NewConn ==
    [state |-> "new", subscribedFile |-> NoFile, prev |-> NoFile, subs |-> 0,
     raised |-> FALSE]

\* the state after the start of the server and the load of the page: one
\* of the two builds runs, its store is empty, no request has arrived, no
\* WebSocket has connected, the page has made no client yet
Init ==
    /\ server \in {"routes", "prod"}
    /\ InitStore
    /\ clients = <<>>
    /\ conn = [c \in Conns |-> NewConn]
    /\ inbox = [c \in Conns |-> <<>>]
    /\ client = [o \in ClientObjs |-> NewClient]
    /\ page = NewPage

\* the steps of upload u once its request is in, for a file whose content
\* is one of cs
UploadStep(u, cs) ==
    \/ /\ up[u].pc = "created"
       /\ \E content \in cs, ok \in BOOLEAN : UploadRead(u, content, ok)
    \/ UploadLine(u)
    \/ UploadSend(u)
    \/ UploadFinish(u)
    \/ \E ok \in BOOLEAN : UploadCleanup(u, ok)

\* the steps of an upload whose file-system calls succeed
UploadRun(u, cs) ==
    \/ /\ up[u].pc = "created"
       /\ \E content \in cs : UploadRead(u, content, TRUE)
    \/ UploadLine(u)
    \/ UploadSend(u)
    \/ UploadFinish(u)
    \/ UploadCleanup(u, TRUE)

Next ==
    \/ \E hasFile \in BOOLEAN : UploadBegin(UploadSeq[1], hasFile)
    \/ UploadStep(UploadSeq[1], Contents)

Spec == Init /\ [][Next]_vars

\* The same, over files of structural lines and of lines the parser has no
\* structural pattern for, and with the handler of a request that has
\* arrived running on: Node resumes it after every await.
FairContents == SeqsUpTo({IsoLine, IsoBadLine, AtLine, TextLine}, MaxLines)

NextFair ==
    \/ \E hasFile \in BOOLEAN : UploadBegin(UploadSeq[1], hasFile)
    \/ UploadStep(UploadSeq[1], FairContents)

SpecFair ==
    Init /\ [][NextFair]_vars /\ WF_vars(UploadStep(UploadSeq[1], FairContents))

-----------------------------------------------------------------------------
(* The WebSocket server *)

RECURSIVE Without(_, _)
Without(cs, c) ==
    IF cs = <<>> THEN <<>>
    ELSE IF Head(cs) = c THEN Without(Tail(cs), c)
    ELSE <<Head(cs)>> \o Without(Tail(cs), c)

\* (mutant) a connection handler that sends no status message
ConnectSilent(c) ==
    /\ Running
    /\ conn[c].state = "new"
    /\ \A i \in 1..Len(ConnSeq) :
          ConnSeq[i] = c => \A j \in 1..(i-1) : conn[ConnSeq[j]].state # "new"
    /\ conn' = [conn EXCEPT ![c].state = "open"]
    /\ clients' = Append(clients, c)
    /\ UNCHANGED <<server, logFiles, logEntries, created, up,
                   inbox, lastRead, client, page>>

\* wss.on("connection"): the handlers are registered and the status message
\* is sent
Connect(c) ==
    /\ Running
    /\ conn[c].state = "new"
    /\ \A i \in 1..Len(ConnSeq) :
          ConnSeq[i] = c => \A j \in 1..(i-1) : conn[ConnSeq[j]].state # "new"
    /\ conn' = [conn EXCEPT ![c].state = "open"]
    /\ clients' = Append(clients, c)
    /\ inbox' = [inbox EXCEPT ![c] = Append(@, StatusMsg)]
    /\ UNCHANGED <<server, logFiles, logEntries, created, up, lastRead,
                   client, page>>

\* how many subscribe messages the connections of cs have sent
RECURSIVE Subs(_)
Subs(cs) == IF cs = <<>> THEN 0 ELSE conn[Head(cs)].subs + Subs(Tail(cs))

\* (mutant) a subscribe that replays the stored records of the file after
\* its ack
SubscribeReplay(c, fileName) ==
    /\ Running
    /\ conn[c].state = "open"
    /\ Subs(ConnSeq) < MaxSubs
    /\ conn' = [conn EXCEPT ![c].subscribedFile = fileName,
                            ![c].prev = conn[c].subscribedFile,
                            ![c].subs = @ + 1]
    /\ inbox' = [inbox EXCEPT ![c] =
                    Append(@, SubscribedMsg(fileName))
                    \o [i \in 1..Len(EntriesOf(logEntries, fileName)) |->
                           LogEntryMsg(EntriesOf(logEntries, fileName)[i])]]
    /\ UNCHANGED <<server, logFiles, logEntries, created, up,
                   clients, lastRead, client, page>>

\* ws.on("message") for {type: "subscribe", fileName}: a fileName that is
\* not empty replaces the subscription and is acknowledged
Subscribe(c, fileName) ==
    /\ Running
    /\ conn[c].state = "open"
    /\ Subs(ConnSeq) < MaxSubs
    /\ IF fileName # ""
       THEN /\ conn' = [conn EXCEPT ![c].subscribedFile = fileName,
                                    ![c].prev = conn[c].subscribedFile,
                                    ![c].subs = @ + 1]
            /\ inbox' = [inbox EXCEPT ![c] = Append(@, SubscribedMsg(fileName))]
       ELSE /\ conn' = [conn EXCEPT ![c].subs = @ + 1]
            /\ UNCHANGED inbox
    /\ UNCHANGED <<server, logFiles, logEntries, created, up,
                   clients, lastRead, client, page>>

\* the messages of a client that subscribe to nothing:
\*   "notJson"     not JSON: JSON.parse throws a SyntaxError
\*   "jsonNull"    the JSON text null: data.type throws a TypeError
\*   "otherType"   an object whose type is not "subscribe"
\*   "noFileName"  a subscribe whose fileName is missing or empty
MessageKinds == {"notJson", "jsonNull", "otherType", "noFileName"}
HandlerThrows(kind) == kind \in {"notJson", "jsonNull"}

\* ws.on("message") for such a message: the condition of the if is false, or
\* an error is thrown before it.  part_002 catches the error and logs it.
\* routes.ts has no try/catch: the error leaves the handler, nothing handles
\* the uncaught exception and the process exits, with its connections and
\* its store.
Message(c, kind) ==
    /\ Running
    /\ conn[c].state = "open"
    /\ IF HandlerThrows(kind) /\ server = "routes"
       THEN /\ server' = "exited"
            /\ conn' = [d \in Conns |->
                          IF conn[d].state = "new" THEN conn[d]
                          ELSE [conn[d] EXCEPT !.state = "closed",
                                               !.raised = @ \/ d = c]]
            /\ clients' = <<>>
            /\ logFiles' = <<>>
            /\ logEntries' = <<>>
       ELSE UNCHANGED <<server, conn, clients, logFiles, logEntries>>
    /\ UNCHANGED <<created, up, inbox, lastRead, client, page>>

\* the connection starts to close: its socket is not OPEN any more
CloseBegin(c) ==
    /\ Running
    /\ conn[c].state = "open"
    /\ conn' = [conn EXCEPT ![c].state = "closing"]
    /\ UNCHANGED <<server, logFiles, logEntries, created, up,
                   clients, inbox, lastRead, client, page>>

\* ws.on("close"): ws has removed the client from wss.clients; the handler
\* only logs
CloseEnd(c) ==
    /\ Running
    /\ conn[c].state = "closing"
    /\ conn' = [conn EXCEPT ![c].state = "closed"]
    /\ clients' = Without(clients, c)
    /\ UNCHANGED <<server, logFiles, logEntries, created, up,
                   inbox, lastRead, client, page>>

\* The streaming specification: connections come, subscribe and go while
\* a file of plain text lines is uploaded; the file-system calls succeed.
\* A client may subscribe to any fileName, also to the id a file gets later.
\* The steps of the connections are taken at any moment, also between two
\* steps of the upload handler, which includes the order of Node (the
\* handler runs to its answer first).
WsContents == SeqsUpTo({TextLine}, MaxLinesTwo) \ {<<>>}

NextWs ==
    \/ \E c \in Conns : Connect(c)
    \/ \E c \in Conns, f \in Uploads : Subscribe(c, f)
    \/ \E c \in Conns : CloseBegin(c)
    \/ \E c \in Conns : CloseEnd(c)
    \/ UploadBegin(UploadSeq[1], TRUE)
    \/ UploadRun(UploadSeq[1], WsContents)

SpecWs == Init /\ [][NextWs]_vars

\* The message specification: connections come, send subscribe messages
\* and messages that subscribe to nothing, and go.
NextMsg ==
    \/ \E c \in Conns : Connect(c)
    \/ \E c \in Conns, f \in Uploads : Subscribe(c, f)
    \/ \E c \in Conns, kind \in MessageKinds : Message(c, kind)
    \/ \E c \in Conns : CloseBegin(c)
    \/ \E c \in Conns : CloseEnd(c)

SpecMsg == Init /\ [][NextMsg]_vars

-----------------------------------------------------------------------------
(* Reading *)

\* the fallback of "parseInt(limit) || 1000" in routes.ts
DefaultLimit == 1000
\* the fallback of "parseInt(limit, 10) || Infinity" in part_002; as an end
\* of a slice every number past the length of the list acts as Infinity does
Infinity == 1000000

Min(a, b) == IF a < b THEN a ELSE b
Max(a, b) == IF a > b THEN a ELSE b

\* Array.prototype.slice(start, end): a negative index counts from the end,
\* both are clamped to 0..length, and nothing is returned when start >= end
JsSlice(s, start, end) ==
    LET len == Len(s)
        k   == IF start < 0 THEN Max(len + start, 0) ELSE Min(start, len)
        f   == IF end < 0 THEN Max(len + end, 0) ELSE Min(end, len)
    IN  IF k >= f THEN <<>> ELSE SubSeq(s, k + 1, f)

\* the timestamp getLogEntries returns: a string as it is, a Date as its
\* toISOString()
IsoString(ts) == IF ts = "Date" THEN "string" ELSE ts

\* getLogEntries(fileName, limit, offset): the slice, each entry with its
\* timestamp as a string; toISOString throws a RangeError on an invalid Date
getLogEntries(le, fileName, limit, offset) ==
    LET entries == EntriesOf(le, fileName)
        sl      == JsSlice(entries, offset, offset + limit)
    IN  IF \E i \in 1..Len(sl) : sl[i].timestamp = "InvalidDate"
        THEN [threw |-> TRUE, entries |-> <<>>]
        ELSE [threw |-> FALSE,
              entries |-> [i \in 1..Len(sl) |->
                              [sl[i] EXCEPT !.timestamp = IsoString(@)]]]

\* a query parameter: absent, or a decimal number
NoParam == [given |-> FALSE, n |-> 0]
Param(n) == [given |-> TRUE, n |-> n]

\* "parseInt(param) || fallback", the parameter having a numeric default
\* when absent: 0 and NaN are falsy
ParseIntOr(param, default, fallback) ==
    LET v == IF param.given THEN param.n ELSE default
    IN  IF v = 0 THEN fallback ELSE v

\* GET /api/logs/:fileId: the response
GetLogsResponse(le, fileId, limit, offset) ==
    LET parsedLimit  == ParseIntOr(limit, 1000,
                                   IF server = "prod" THEN Infinity ELSE DefaultLimit)
        parsedOffset == ParseIntOr(offset, 0, 0)
        r            == getLogEntries(le, fileId, parsedLimit, parsedOffset)
    IN  IF r.threw THEN [status |-> 500, body |-> <<>>]
        ELSE [status |-> 200, body |-> r.entries]

GetLogs(fileId, limit, offset) ==
    /\ Running
    /\ lastRead' = <<[route |-> "logs", fileId |-> fileId,
                      limit |-> limit, offset |-> offset,
                      response |-> GetLogsResponse(logEntries, fileId, limit, offset)]>>
    /\ UNCHANGED <<server, logFiles, logEntries, created, up,
                   clients, conn, inbox, client, page>>

\* The reading specification: one file is uploaded, and reads of it and of
\* a file that does not exist come at any moment, which includes the moments
\* Node serves them at (before the upload and after it).
Limits == {NoParam} \cup {Param(n) : n \in 0..(2 * MaxLimit)}
Offsets == {NoParam} \cup {Param(n) : n \in (0 - 1)..MaxLimit}
ReadContents == SeqsUpTo({IsoLine, IsoBadLine, TextLine}, MaxLines)

NextRead ==
    \/ UploadBegin(UploadSeq[1], TRUE)
    \/ UploadStep(UploadSeq[1], ReadContents)
    \/ \E f \in Uploads, limit \in Limits, offset \in Offsets : GetLogs(f, limit, offset)

SpecRead == Init /\ [][NextRead]_vars

-----------------------------------------------------------------------------
(* Statistics, clearing and deleting *)

\* GET /api/stats/:fileId: the response
GetStatsResponse(le, fileId) ==
    [status |-> 200, body |-> getLogStatistics(le, fileId)]

GetStats(fileId) ==
    /\ Running
    /\ lastRead' = <<[route |-> "stats", fileId |-> fileId,
                      limit |-> NoParam, offset |-> NoParam,
                      response |-> GetStatsResponse(logEntries, fileId)]>>
    /\ UNCHANGED <<server, logFiles, logEntries, created, up,
                   clients, conn, inbox, client, page>>

\* DELETE /api/logs/:fileId
ClearLogs(fileId) ==
    /\ Running
    /\ logEntries' = clearLogEntries(logEntries, fileId)
    /\ UNCHANGED <<server, logFiles, created, up, clients, conn,
                   inbox, lastRead, client, page>>

\* (mutant) a delete that takes only the metadata of the file out of the
\* store
DeleteFileMetadataOnly(fileId) ==
    /\ Running
    /\ logFiles' = IF server = "routes" THEN MapDelete(logFiles, fileId) ELSE logFiles
    /\ UNCHANGED <<server, logEntries, created, up, clients, conn, inbox, lastRead,
                   client, page>>

\* DELETE /api/files/:fileId: deleteLogFile takes the file out of both maps.
\* part_002 registers no such route: the request is answered 404 and the
\* store stays as it is.
DeleteFile(fileId) ==
    /\ Running
    /\ logFiles' = IF server = "routes" THEN MapDelete(logFiles, fileId) ELSE logFiles
    /\ logEntries' = IF server = "routes" THEN MapDelete(logEntries, fileId)
                     ELSE logEntries
    /\ UNCHANGED <<server, created, up, clients, conn, inbox, lastRead,
                   client, page>>

\* The store specification: a file is uploaded, no client is connected, and
\* requests for statistics, clearing and deleting come before the upload
\* and after it: Node serves a request when no handler runs.
StoreContents == SeqsUpTo({IsoLine, LocaleLine, TextLine}, MaxLines)

NextStore ==
    \/ UploadBegin(UploadSeq[1], TRUE)
    \/ UploadStep(UploadSeq[1], StoreContents)
    \/ Quiet /\ \E f \in Uploads : GetStats(f)
    \/ Quiet /\ \E f \in Uploads : ClearLogs(f)
    \/ Quiet /\ \E f \in Uploads : DeleteFile(f)

SpecStore == Init /\ [][NextStore]_vars

\* The two-file specification: two uploads run side by side while requests
\* to clear and to delete come at any moment.  The steps of the handlers are
\* taken in every order, which includes the order of Node (one handler
\* after the other).
TwoContents == SeqsUpTo({IsoLine}, MaxLinesTwo)

NextTwo ==
    \/ \E u \in Uploads : UploadBegin(u, TRUE)
    \/ \E u \in Uploads : UploadStep(u, TwoContents)
    \/ \E f \in Uploads : ClearLogs(f)
    \/ \E f \in Uploads : DeleteFile(f)

SpecTwo == Init /\ [][NextTwo]_vars

\* The line loop of an upload that runs alone, from line number n on, acc
\* being the records stored so far: the lineNumber, level, message and
\* stackTrace of the records it stores.
\* routes.ts stores one record per line that is not blank; part_002 stores
\* none for a line whose date does not exist (toISOString throws) and none
\* for a line the parser returns with a stackTrace.
RECURSIVE AloneRun(_, _, _)
AloneRun(ls, n, acc) ==
    IF ls = <<>> THEN acc
    ELSE IF ~Truthy(Trim(Head(ls))) THEN AloneRun(Tail(ls), n, acc)
    ELSE LET parsed == parseLogLine(Head(ls), n)
             rec    == [lineNumber |-> parsed.lineNumber, level |-> parsed.level,
                        message |-> parsed.message, stackTrace |-> parsed.stackTrace]
         IN  IF server = "routes" THEN AloneRun(Tail(ls), n + 1, Append(acc, rec))
             ELSE IF parsed.stackTrace # <<>> \/ parsed.timestamp = "InvalidDate"
                  THEN AloneRun(Tail(ls), n + 1, acc)
             ELSE AloneRun(Tail(ls), n + 1, Append(acc, rec))

\* The re-ingestion specification: two uploads of structural lines (one of
\* them with a date that does not exist) and stack-frame lines run side by
\* side, their steps taken in every order, which includes the order of Node
\* (one handler after the other).
TwiceContents == SeqsUpTo({IsoLine, IsoBadLine, AtLine}, MaxLinesTwo)

NextTwice ==
    \/ \E u \in Uploads : UploadBegin(u, TRUE)
    \/ \E u \in Uploads : UploadStep(u, TwiceContents)

SpecTwice == Init /\ [][NextTwice]_vars

\* The clearing specification: a file of structural lines and stack-frame
\* lines is uploaded, no client is connected, the file-system calls succeed,
\* and requests to clear the file come before the upload and after it.
ClearContents == SeqsUpTo({IsoLine, AtLine}, MaxLines)

NextClear ==
    \/ UploadBegin(UploadSeq[1], TRUE)
    \/ UploadRun(UploadSeq[1], ClearContents)
    \/ Quiet /\ ClearLogs(UploadSeq[1])

SpecClear == Init /\ [][NextClear]_vars

-----------------------------------------------------------------------------
(* The browser's client (LogWebSocket) *)

\* scheduleReconnect(): nothing when reconnectTimeout is set; otherwise a
\* timer of currentDelay
scheduleReconnect(cl) ==
    IF cl.reconnectTimeout # "null" THEN cl
    ELSE [cl EXCEPT !.reconnectTimeout = "pending",
                    !.delays = Append(@, cl.currentDelay),
                    !.timers = @ + 1]

\* connect(): nothing when the socket is open; otherwise a new WebSocket,
\* or, when the constructor throws, onError and scheduleReconnect()
connect(cl, throws) ==
    IF cl.ws = "open" THEN cl
    ELSE IF throws THEN scheduleReconnect(cl)
    ELSE [cl EXCEPT !.ws = "connecting", !.status = "connecting",
                    !.sockets = @ + 1]

\* ws.onclose(event)
onclose(cl, code) ==
    LET c1 == [cl EXCEPT !.ws = "closed", !.status = "disconnected", !.code = code]
    IN  IF code # 1000 THEN scheduleReconnect(c1) ELSE c1

\* subscribeToFile(fileName): the subscribe frame is sent only if the socket
\* is open
subscribeToFile(cl, fileName) ==
    [cl EXCEPT !.wanted = fileName,
               !.frames = IF cl.ws = "open" THEN Append(@, fileName) ELSE @]

\* disconnect(): a timer is cancelled, the socket gets close(1000) and
\* this.ws is set to null.  A socket that was connecting or open keeps its
\* handlers until its close event.
disconnect(cl) ==
    [cl EXCEPT !.reconnectTimeout = "null",
               !.timers = IF cl.reconnectTimeout = "pending" THEN @ - 1 ELSE @,
               !.old = CASE cl.ws = "connecting" -> "fromConnecting"
                         [] cl.ws = "open" -> "fromOpen"
                         [] OTHER -> cl.old,
               !.ws = "null",
               !.frames = <<>>,
               !.disconnected = TRUE]

\* the object the page holds now: made, and not yet disconnected
Current(o) == client[o].mounted /\ ~client[o].disconnected
\* the object the page makes next
NextObject(o) ==
    /\ ~client[o].mounted
    /\ \A i \in 1..Len(ClientSeq) :
          ClientSeq[i] = o => \A j \in 1..(i-1) : client[ClientSeq[j]].mounted

\* the page mounts: new LogWebSocket(...) and connect()
ClientConnect(o) ==
    /\ o = ClientSeq[1]
    /\ ~client[o].mounted
    /\ \E throws \in BOOLEAN :
          client' = [client EXCEPT ![o] = connect([@ EXCEPT !.mounted = TRUE], throws)]
    /\ UNCHANGED <<server, logFiles, logEntries, created, up,
                   clients, conn, inbox, lastRead, page>>

\* the render after setWsConnection(o): the wsConnection state holds the
\* object, and the subscribe effect calls subscribeToFile if the page has a
\* current file
SetWsConnection(o) ==
    /\ Current(o)
    /\ page.wsConnection # o
    /\ page' = [page EXCEPT !.wsConnection = o]
    /\ client' = IF page.currentFile = NoFile THEN client
                 ELSE [client EXCEPT ![o] = subscribeToFile(@, page.currentFile)]
    /\ UNCHANGED <<server, logFiles, logEntries, created, up,
                   clients, conn, inbox, lastRead>>

\* the page's current file becomes fileName (a file is selected, uploaded,
\* or the first of the list is taken).  handleLogEntry changes with it, so
\* the init effect runs again: its cleanup calls disconnect() on the object
\* o, then a new object n is made and connects.  The subscribe effect runs
\* in the same flush, with the wsConnection state of this render, which is
\* still o: subscribeToFile is called on the disconnected object.
Remount(o, n, fileName) ==
    /\ Current(o)
    /\ page.wsConnection = o
    /\ NextObject(n)
    /\ fileName # page.currentFile
    /\ page' = [page EXCEPT !.currentFile = fileName]
    /\ \E throws \in BOOLEAN :
          client' = [client EXCEPT
                       ![o] = subscribeToFile(disconnect(@), fileName),
                       ![n] = connect([@ EXCEPT !.mounted = TRUE,
                                                !.reachable = client[o].reachable],
                                      throws)]
    /\ UNCHANGED <<server, logFiles, logEntries, created, up,
                   clients, conn, inbox, lastRead>>

\* (mutant) an onopen that resets the delay to zero
SocketOpenNoDelay(o) ==
    /\ client[o].ws = "connecting"
    /\ client[o].reachable
    /\ client' = [client EXCEPT ![o] =
                    [@ EXCEPT !.ws = "open", !.status = "connected",
                              !.currentDelay = 0,
                              !.reconnectTimeout = "null",
                              !.delays = <<>>]]
    /\ UNCHANGED <<server, logFiles, logEntries, created, up,
                   clients, conn, inbox, lastRead, page>>

\* ws.onopen: the delay is reset and reconnectTimeout is cleared (a timer
\* that waits is cancelled); the server's new connection has no subscription
SocketOpen(o) ==
    /\ client[o].ws = "connecting"
    /\ client[o].reachable
    /\ client' = [client EXCEPT ![o] =
                    [@ EXCEPT !.ws = "open", !.status = "connected",
                              !.currentDelay = ReconnectDelay,
                              !.reconnectTimeout = "null",
                              !.timers = IF client[o].reconnectTimeout = "pending"
                                         THEN @ - 1 ELSE @,
                              !.frames = <<>>,
                              !.serverSub = NoFile,
                              !.delays = <<>>]]
    /\ UNCHANGED <<server, logFiles, logEntries, created, up,
                   clients, conn, inbox, lastRead, page>>

\* the attempt fails: ws.onerror, then ws.onclose with code 1006
SocketFail(o) ==
    /\ client[o].ws = "connecting"
    /\ ~client[o].reachable
    /\ client' = [client EXCEPT ![o] =
                    onclose([@ EXCEPT !.status = "disconnected",
                                      !.sockets = @ - 1], 1006)]
    /\ UNCHANGED <<server, logFiles, logEntries, created, up,
                   clients, conn, inbox, lastRead, page>>

\* how many times the objects of os lost an open socket
RECURSIVE Closes(_)
Closes(os) == IF os = <<>> THEN 0 ELSE client[Head(os)].closes + Closes(Tail(os))

\* the open socket closes: ws.onclose with the code of the closure; the
\* frames the server has not read are lost
SocketClose(o, code) ==
    /\ client[o].ws = "open"
    /\ Closes(ClientSeq) < MaxCloses
    /\ client' = [client EXCEPT ![o] =
                    [onclose(@, code) EXCEPT !.closes = @ + 1,
                                             !.sockets = @ - 1,
                                             !.frames = <<>>]]
    /\ UNCHANGED <<server, logFiles, logEntries, created, up,
                   clients, conn, inbox, lastRead, page>>

\* the timer runs: connect(), then the delay doubles up to the maximum.
\* reconnectTimeout keeps the id of the timer.
TimerFire(o) ==
    /\ client[o].reconnectTimeout = "pending"
    /\ \E throws \in BOOLEAN :
          client' = [client EXCEPT ![o] =
                       [connect(@, throws) EXCEPT
                          !.reconnectTimeout = "fired",
                          !.timers = @ - 1,
                          !.currentDelay = Min(client[o].currentDelay * 2,
                                               MaxReconnectDelay)]]
    /\ UNCHANGED <<server, logFiles, logEntries, created, up,
                   clients, conn, inbox, lastRead, page>>

\* the server stops, or starts again
ServerFlip ==
    /\ client' = [o \in ClientObjs |-> [client[o] EXCEPT !.reachable = ~@]]
    /\ UNCHANGED <<server, logFiles, logEntries, created, up,
                   clients, conn, inbox, lastRead, page>>

\* the server's message handler reads a subscribe frame of the socket and
\* sets subscribedFile (routes.ts:32-33)
ServerReads(o) ==
    /\ client[o].ws = "open"
    /\ client[o].frames # <<>>
    /\ client' = [client EXCEPT ![o] =
                    [@ EXCEPT !.serverSub = Head(client[o].frames),
                              !.frames = Tail(@)]]
    /\ UNCHANGED <<server, logFiles, logEntries, created, up,
                   clients, conn, inbox, lastRead, page>>

\* the page unmounts: disconnect()
Disconnect(o) ==
    /\ Current(o)
    /\ client' = [client EXCEPT ![o] = disconnect(@)]
    /\ UNCHANGED <<server, logFiles, logEntries, created, up,
                   clients, conn, inbox, lastRead, page>>

\* the close codes of the close event of a socket after close(1000): a
\* socket that was connecting fails with 1006; one that was open ends its
\* closing handshake (1000), loses the connection first (1006), or gets the
\* code of a Close frame the server had sent already (1001)
OldCloseCodes(old) == IF old = "fromConnecting" THEN {1006} ELSE CloseCodes

\* the close event of the socket disconnect() let go of: its onclose runs,
\* this.ws is not that socket
OldSocketClose(o, code) ==
    /\ client[o].old # "none"
    /\ code \in OldCloseCodes(client[o].old)
    /\ client' = [client EXCEPT ![o] =
                    [onclose(@, code) EXCEPT !.ws = client[o].ws,
                                             !.old = "none",
                                             !.sockets = @ - 1]]
    /\ UNCHANGED <<server, logFiles, logEntries, created, up,
                   clients, conn, inbox, lastRead, page>>

\* The client specification: one object, which the page makes and keeps.
\* The browser runs a timer that waits and settles an attempt to connect:
\* these steps are fair.
NextClient ==
    \/ ClientConnect(ClientSeq[1])
    \/ SocketOpen(ClientSeq[1])
    \/ SocketFail(ClientSeq[1])
    \/ \E code \in CloseCodes : SocketClose(ClientSeq[1], code)
    \/ TimerFire(ClientSeq[1])
    \/ ServerFlip

SpecClient ==
    /\ Init
    /\ [][NextClient]_vars
    /\ WF_vars(ClientConnect(ClientSeq[1])) /\ WF_vars(SocketOpen(ClientSeq[1]))
    /\ WF_vars(SocketFail(ClientSeq[1])) /\ WF_vars(TimerFire(ClientSeq[1]))

\* The page specification: the clients as the page drives them.  It makes
\* an object at mount and a new one whenever its current file changes,
\* subscribes to its current file, and disconnects when it unmounts.
NextPage ==
    \/ ClientConnect(ClientSeq[1])
    \/ \E o \in ClientObjs : SetWsConnection(o)
    \/ \E o, n \in ClientObjs, f \in Uploads : Remount(o, n, f)
    \/ \E o \in ClientObjs : SocketOpen(o)
    \/ \E o \in ClientObjs : SocketFail(o)
    \/ \E o \in ClientObjs, code \in CloseCodes : SocketClose(o, code)
    \/ \E o \in ClientObjs : TimerFire(o)
    \/ ServerFlip
    \/ \E o \in ClientObjs : ServerReads(o)
    \/ \E o \in ClientObjs : Disconnect(o)
    \/ \E o \in ClientObjs, code \in CloseCodes : OldSocketClose(o, code)

SpecPage == Init /\ [][NextPage]_vars

-----------------------------------------------------------------------------
(* Ingestion: the claims *)

Status(f) == IF f \in DOMAIN logFiles THEN logFiles[f].status ELSE "absent"
Finished(u) == up[u].pc \in {"done", "failed"}
\* upload u is in a pass of its loop, over this line
InLoop(u) == up[u].pc = "loop" /\ up[u].idx <= Len(up[u].lines)
InPass(u) == InLoop(u) \/ up[u].pc \in {"send", "resend"}
CurrentLine(u) == up[u].lines[up[u].idx]
\* upload u takes a step; begins a pass (takes the next line); ends a pass
\* (is done with its line, or leaves the loop with an error); resumes after
\* an await of createLogEntry and makes a broadcast
Steps(u) == up'[u] # up[u]
Begins(u) == InLoop(u) /\ Steps(u)
Passes(u) == InPass(u) /\ (up'[u].idx = up[u].idx + 1 \/ up'[u].pc = "failed")
Sends(u) == up[u].pc \in {"send", "resend"} /\ Steps(u)

\* the records a step adds to file f, and the stored records of f whose
\* stack trace it extends
NewRecords(f) == Len(EntriesOf(logEntries', f)) - Len(EntriesOf(logEntries, f))
Merges(f) ==
    Cardinality({i \in 1..Len(EntriesOf(logEntries, f)) :
        /\ i <= Len(EntriesOf(logEntries', f))
        /\ logEntries'[f][i].stackTrace # logEntries[f][i].stackTrace})

\* C1: every pass of the loop over a line that is not blank has, when it
\* ends, exactly one outcome: one record stored (parsed or fallback) or one
\* merge into the previous record's stack trace.
C1_OneOutcomePerLine ==
    [][\A u \in Uploads :
          (Passes(u) /\ Truthy(Trim(CurrentLine(u))))
          => up'[u].stored + up'[u].merged = 1]_vars

\* a structural line, and a stack-frame line (whitespace-indented "at ...",
\* "Caused by:", "... N more")
IsStructural(l) == l.lead = 0 /\ l.body \in {"iso", "isoBad", "locale"}
IsStackFrame(l) == l.lead >= 1 /\ l.body \in {"at", "causedBy", "more"}

\* the lines ls joined by newline
RECURSIVE JoinLines(_)
JoinLines(ls) ==
    IF ls = <<>> THEN <<>>
    ELSE IF Len(ls) = 1 THEN <<LineText(ls[1])>>
    ELSE <<LineText(ls[1]), NewlineText>> \o JoinLines(Tail(ls))

\* C2: after the ingestion of a file made of one structural line and then
\* k >= 1 stack-frame lines, the file holds exactly one record, with the
\* structural line's level and message and the k lines, newline-joined, as
\* its stack trace.
C2_ContinuationMerge ==
    \A u \in Uploads :
        LET ls == up[u].lines
            es == EntriesOf(logEntries, u)
        IN  (/\ up[u].pc \in {"unlink", "done"}
             /\ Len(ls) >= 2
             /\ IsStructural(ls[1])
             /\ \A i \in 2..Len(ls) : IsStackFrame(ls[i]))
            => /\ Len(es) = 1
               /\ es[1].level = LevelOf(ls[1])
               /\ es[1].message = GroupText(ls[1])
               /\ es[1].stackTrace = JoinLines(Tail(ls))

\* C3: in every state the stored records of a file have strictly increasing
\* line numbers in store order.
C3_LineNumbersIncrease ==
    \A f \in DOMAIN logEntries :
        \A i, j \in 1..Len(logEntries[f]) :
            i < j => logEntries[f][i].lineNumber < logEntries[f][j].lineNumber

\* a file of three lines, a blank line among them, was ingested: its two
\* records are stored in the order of their lines
C3_Witness ==
    \E f \in Uploads :
        /\ up[f].pc = "done" /\ Len(up[f].lines) = 3
        /\ \E i \in 1..3 : ~Truthy(Trim(up[f].lines[i]))
        /\ Len(EntriesOf(logEntries, f)) = 2
        /\ logEntries[f][1].lineNumber = 1 /\ logEntries[f][2].lineNumber = 2

\* C7: the first record of a file is stored while the file exists with
\* status "processing"; the status becomes "active" only in a step taken
\* after every line was consumed; an active file never stops being active
\* while it exists.
C7_Lifecycle ==
    [][\A f \in Uploads :
          /\ (created[f] = 0 /\ created'[f] > 0) => Status(f) = "processing"
          /\ (Status(f) # "active" /\ Status(f)' = "active")
                => (up[f].pc = "loop" /\ up[f].idx > Len(up[f].lines))
          /\ (Status(f) = "active" /\ f \in DOMAIN logFiles') => Status(f)' = "active"]_vars

\* a file is active with all the records of a three-line file stored
C7_Witness ==
    \E f \in Uploads :
        Status(f) = "active" /\ up[f].pc = "done" /\ Len(EntriesOf(logEntries, f)) >= 3

\* the line is one the parser has no structural pattern for
IsFallback(l) == Truthy(Trim(l)) /\ FirstStructural(Trim(l)) = 0

\* C8: every ingestion that has started terminates, and when no call
\* outside the parsing of its lines threw during it (its only anomalies are
\* lines) it ends with the 200 answer and the file "active".
C8_TerminatesActive ==
    \A u \in Uploads :
        (up[u].pc = "created") ~>
            (/\ Finished(u)
             /\ ~up[u].fault => (up[u].pc = "done" /\ Status(u) = "active"))

\* an ingestion ended "active" although all of its three lines took the
\* parser's fallback path
C8_Witness ==
    \E u \in Uploads :
        /\ up[u].pc = "done" /\ ~up[u].fault /\ Status(u) = "active"
        /\ Len(up[u].lines) >= 3
        /\ \A i \in 1..Len(up[u].lines) : IsFallback(up[u].lines[i])

\* C9: an upload that was answered with an error leaves no active file.
C9_FailedNeverActive ==
    \A u \in Uploads : up[u].pc = "failed" => Status(u) # "active"

\* the fields of the records of a file that do not depend on the moment or
\* on the file: lineNumber, level, message and stackTrace
Content(f) ==
    [i \in 1..Len(EntriesOf(logEntries, f)) |->
        [lineNumber |-> EntriesOf(logEntries, f)[i].lineNumber,
         level |-> EntriesOf(logEntries, f)[i].level,
         message |-> EntriesOf(logEntries, f)[i].message,
         stackTrace |-> EntriesOf(logEntries, f)[i].stackTrace]]

\* C17: when two uploads of the same lines have both been ingested (each
\* answered 200), the record sequences of their two files have the same
\* length and agree, position by position, in lineNumber, level, message
\* and stackTrace.
C17_ReingestionAgrees ==
    \A u, v \in Uploads :
        (/\ up[u].pc = "done" /\ up[v].pc = "done"
         /\ up[u].lines = up[v].lines)
        => Content(u) = Content(v)

\* two uploads of the same two lines, a structural line and a stack-frame
\* line, have both been ingested
C17_Witness ==
    /\ \A u \in Uploads : up[u].pc = "done" /\ up[u].lines = <<IsoLine, AtLine>>
    /\ \A u \in Uploads : Len(EntriesOf(logEntries, u)) = 2

\* C26: with two uploads running side by side, a step of the handler of one
\* leaves the records of the other file as they are; every record is stored
\* under the file of its own upload; and the records of an upload that was
\* answered 200 are those its loop stores when it runs alone.
C26_UploadsIndependent ==
    [][\A u \in Uploads :
          /\ Steps(u) => \A v \in Uploads \ {u} :
                             EntriesOf(logEntries', v) = EntriesOf(logEntries, v)
          /\ \A i \in 1..Len(EntriesOf(logEntries', u)) :
                /\ EntriesOf(logEntries', u)[i].fileName = u
                /\ EntriesOf(logEntries', u)[i].id.file = u
          /\ up'[u].pc = "done" =>
                [i \in 1..Len(EntriesOf(logEntries', u)) |->
                    [lineNumber |-> EntriesOf(logEntries', u)[i].lineNumber,
                     level |-> EntriesOf(logEntries', u)[i].level,
                     message |-> EntriesOf(logEntries', u)[i].message,
                     stackTrace |-> EntriesOf(logEntries', u)[i].stackTrace]]
                = AloneRun(up'[u].lines, 1, <<>>)]_vars

\* the second upload, of other lines than the first, ran from its start to
\* its 200 answer while the first one was in its loop, one line done and one
\* to go; both files hold records
C26_Witness ==
    /\ up[UploadSeq[1]].pc = "loop" /\ up[UploadSeq[1]].idx = 2
    /\ Len(up[UploadSeq[1]].lines) = 2
    /\ Len(EntriesOf(logEntries, UploadSeq[1])) = 1
    /\ up[UploadSeq[2]].pc = "done"
    /\ up[UploadSeq[2]].lines # up[UploadSeq[1]].lines
    /\ Len(EntriesOf(logEntries, UploadSeq[2])) = 2

\* C18: every pass of the loop over a line that is not blank and matches no
\* structural and no continuation pattern stores exactly one record, with
\* level INFO and the trimmed line as its message, and the loop goes on.
C18_FallbackRecord ==
    [][\A u \in Uploads :
          (/\ Passes(u)
           /\ IsFallback(CurrentLine(u))
           /\ ~Pattern3(CurrentLine(u)))
          => /\ up'[u].stored = 1
             /\ LET e == EntriesOf(logEntries', u)[Len(EntriesOf(logEntries', u))]
                IN  e.level = "INFO" /\ e.message = LineText(Trim(CurrentLine(u)))
             /\ up'[u].pc = "loop"]_vars

\* a padded line of plain text was ingested as one INFO record with the
\* trimmed line as its message, and the line after it was ingested too
C18_Witness ==
    \E u \in Uploads :
        /\ up[u].pc = "done"
        /\ up[u].lines = <<PaddedTextLine, IsoLine>>
        /\ Len(EntriesOf(logEntries, u)) = 2
        /\ logEntries[u][1].level = "INFO"
        /\ logEntries[u][1].message = LineText(Trim(PaddedTextLine))
        /\ logEntries[u][2].level = "ERROR"

\* the record that upload u stored last is no longer in the store
LastRecordGone(u) ==
    /\ created[u] > 0
    /\ \A i \in 1..Len(EntriesOf(logEntries, u)) :
          EntriesOf(logEntries, u)[i].id # EntryId(u, created[u])

\* C21: when the loop takes a stack-frame line and the record it would
\* extend (the one this ingestion stored last) is no longer in the store,
\* the ingestion ends as a failure: the step stores nothing, the handler
\* leaves the loop with an error, and the file is not made active.
C21_MissingRecordAborts ==
    [][\A u \in Uploads :
          (Begins(u) /\ IsStackFrame(CurrentLine(u)) /\ LastRecordGone(u))
          => /\ NewRecords(u) = 0
             /\ up'[u].pc = "failed"
             /\ Status(u)' # "active"]_vars

\* the case of C21 does not arise: while an upload is in its loop, the
\* record it stored last is in the store
C21_RecordNeverMissing ==
    \A u \in Uploads : InPass(u) => ~LastRecordGone(u)

\* the line matches no structural and no continuation pattern
TakesFallback(l) == IsFallback(l) /\ ~Pattern3(l)

\* how many of the lines ls take the fallback path, plus how many are
\* continuation lines with no record before them; seen says whether a line
\* that is not blank came before ls
RECURSIVE LineErrors(_, _)
LineErrors(ls, seen) ==
    IF ls = <<>> THEN 0
    ELSE LET l == Head(ls) IN
         IF ~Truthy(Trim(l)) THEN LineErrors(Tail(ls), seen)
         ELSE (IF TakesFallback(l) \/ (Pattern3(l) /\ ~seen) THEN 1 ELSE 0)
              + LineErrors(Tail(ls), TRUE)

\* C23: the errors count of the 200 answer of an upload is the number of
\* its lines that took the fallback path plus the number of its continuation
\* lines that had no record before them.
C23_ErrorsCountLines ==
    \A u \in Uploads :
        up[u].pc = "done" => up[u].errorCount = LineErrors(up[u].lines, FALSE)

\* the line upload u is at is the first line of its file that is not blank
AtFirstLine(u) ==
    \A i \in 1..(up[u].idx - 1) : ~Truthy(Trim(up[u].lines[i]))

\* C25: a pass of the loop over a stack-frame line that is the first line
\* of the file that is not blank stores exactly one record, with level
\* DEBUG, an empty message and the line (as it is, or trimmed as the parser
\* returns it) as its stack trace.
C25_ContinuationFirst ==
    [][\A u \in Uploads :
          (Passes(u) /\ IsStackFrame(CurrentLine(u)) /\ AtFirstLine(u))
          => /\ up'[u].stored = 1
             /\ LET e == EntriesOf(logEntries', u)[Len(EntriesOf(logEntries', u))]
                IN  /\ e.level = "DEBUG"
                    /\ e.message = EmptyText
                    /\ e.stackTrace \in {<<LineText(CurrentLine(u))>>,
                                         <<LineText(Trim(CurrentLine(u)))>>}]_vars

-----------------------------------------------------------------------------
(* Streaming: the claims *)

\* the broadcast that upload u makes in this step, and the broadcasts of
\* the pass that ends in this step
StepPubs(u) == IF Sends(u) THEN {up'[u].pubs[Len(up'[u].pubs)]} ELSE {}
PassPubs(u) ==
    IF up[u].pc = "loop" THEN {} ELSE {up'[u].pubs[i] : i \in 1..Len(up'[u].pubs)}

\* C4: every broadcast of a record of file u reaches exactly the
\* connected clients whose current subscription is u: each of them, and no
\* client subscribed to another file or to none.
C4_BroadcastReachesSubscribers ==
    [][\A u \in Uploads :
          Sends(u) => \A p \in StepPubs(u) : p.to = LiveSubscribers(u)]_vars

\* a record of the first file was sent to a connection subscribed to it,
\* while the other connection, subscribed to the other file, was sent none
C4_Witness ==
    \E c \in Conns : \E d \in Conns \ {c} :
        /\ up[UploadSeq[1]].pubs # <<>>
        /\ up[UploadSeq[1]].pubs[1].to = {c}
        /\ conn[d].state = "open" /\ conn[d].subs = 1
        /\ conn[d].subscribedFile = UploadSeq[2]
        /\ \A i \in 1..Len(inbox[d]) : inbox[d][i].type # "logEntry"
        /\ \E i \in 1..Len(inbox[c]) : inbox[c][i].type = "logEntry"

\* C5: for a client that subscribed to a file and then to another one, a
\* broadcast for the file it left does not reach it, and a broadcast for the
\* file it is subscribed to now reaches it while it is connected.
C5_LastSubscribeWins ==
    [][\A u \in Uploads : \A c \in Conns :
          (/\ Sends(u)
           /\ conn[c].subs >= 2
           /\ conn[c].prev # conn[c].subscribedFile)
          => \A p \in StepPubs(u) :
                /\ u = conn[c].prev => c \notin p.to
                /\ (u = conn[c].subscribedFile /\ conn[c].state = "open")
                      => c \in p.to]_vars

\* a connection subscribed to the first file and then to the other one; the
\* first file was ingested and each of its records was sent to the other
\* connection, a subscriber of it, and not to this one
C5_Witness ==
    \E c \in Conns : \E d \in Conns \ {c} :
        /\ conn[c].state = "open" /\ conn[c].subs = 2
        /\ conn[c].prev = UploadSeq[1] /\ conn[c].subscribedFile = UploadSeq[2]
        /\ inbox[c] = <<StatusMsg, SubscribedMsg(UploadSeq[1]),
                        SubscribedMsg(UploadSeq[2])>>
        /\ up[UploadSeq[1]].pc = "done" /\ created[UploadSeq[1]] = 2
        /\ inbox[d] = <<StatusMsg, SubscribedMsg(UploadSeq[1]),
                        LogEntryMsg(logEntries[UploadSeq[1]][1]),
                        LogEntryMsg(logEntries[UploadSeq[1]][2])>>

\* C6: when a subscriber of file u is in wss.clients with a socket that is
\* not open, so that the send to it fails, no broadcast of a record of u
\* throws, and every broadcast still reaches each open subscriber of u.
C6_SendFailureIsolated ==
    [][\A u \in Uploads :
          (/\ Sends(u)
           /\ \E c \in Conns : /\ conn[c].state = "closing"
                               /\ conn[c].subscribedFile = u)
          => \A p \in StepPubs(u) :
                ~p.threw /\ LiveSubscribers(u) \subseteq p.to]_vars

\* a broadcast called send for a subscriber whose socket was closing, did
\* not throw, and reached the other subscriber
C6_Witness ==
    \E u \in Uploads : \E i \in 1..Len(up[u].pubs) :
        /\ up[u].pubs[i].failed # {}
        /\ up[u].pubs[i].to # {}
        /\ ~up[u].pubs[i].threw
        /\ \A c \in up[u].pubs[i].to :
              \E k \in 1..Len(inbox[c]) :
                  inbox[c][k] = LogEntryMsg(up[u].pubs[i].entry)

\* the stored record of file f with this id, as a sequence of at most one
StoredRecord(le, f, id) ==
    SelectSeq(EntriesOf(le, f), LAMBDA e : e.id = id)

\* the logEntry messages about the record with this id in the inbox of c
MessagesAbout(box, id) ==
    SelectSeq(box, LAMBDA m : m.type = "logEntry" /\ m.data[1].id = id)

\* C22: a pass of the loop over a stack-frame line, the record the
\* ingestion stored before it being in the store, stores no new record,
\* extends the stack trace of that record, and publishes the record again,
\* with its id and its new stack trace, so that the last message about it in
\* the inbox of every connected subscriber of the file carries the stored
\* stack trace.
C22_ContinuationRepublished ==
    [][\A u \in Uploads :
          LET id == EntryId(u, created'[u] - up'[u].stored) IN
          (Passes(u) /\ IsStackFrame(CurrentLine(u))
              /\ id.n > 0 /\ StoredRecord(logEntries, u, id) # <<>>)
          => LET old == StoredRecord(logEntries, u, id)
                 new == StoredRecord(logEntries', u, id)
             IN  /\ up'[u].stored = 0
                 /\ Len(new) = 1
                 /\ new[1].stackTrace # old[1].stackTrace
                 /\ \E p \in PassPubs(u) :
                       p.entry.id = id /\ p.entry.stackTrace = new[1].stackTrace
                 /\ \A c \in LiveSubscribers(u) :
                       LET ms == MessagesAbout(inbox'[c], id)
                       IN  /\ ms # <<>>
                           /\ ms[Len(ms)].data[1].stackTrace = new[1].stackTrace]_vars

\* the connections a broadcast called send for
Attempted(p) == p.to \cup p.failed

\* C24: a broadcast calls send for no connection that has disconnected,
\* and for no connection for which the send of an earlier broadcast of that
\* upload (of the pass before, or earlier in the same pass) failed.
C24_FaultyConnectionDropped ==
    [][\A u \in Uploads : \A c \in Conns :
          (/\ Sends(u)
           /\ \/ conn[c].state = "closed"
              \/ \E i \in 1..Len(up[u].pubs) : c \in up[u].pubs[i].failed)
          => \A p \in StepPubs(u) : c \notin Attempted(p)]_vars

\* the messages a step adds to the inbox of connection c
NewMessages(c) == SubSeq(inbox'[c], Len(inbox[c]) + 1, Len(inbox'[c]))

\* C16: a connection is sent a record only in the step that publishes it,
\* and only when its subscription was for the record's file before that
\* step; a record is published once, after the step that stored it: a record
\* that was published before the connection subscribed is never sent to it.
C16_NoReplay ==
    [][/\ \A c \in Conns : \A i \in 1..Len(NewMessages(c)) :
             NewMessages(c)[i].type = "logEntry"
             => LET e == NewMessages(c)[i].data[1] IN
                /\ conn[c].subscribedFile = e.fileName
                /\ Sends(e.fileName)
                /\ up[e.fileName].pending = <<e>>
       /\ \A u \in Uploads :
             (up'[u].pending # up[u].pending /\ up'[u].pending # <<>>)
             => /\ created'[u] = created[u] + 1
                /\ up'[u].pending[1].id = EntryId(u, created'[u])]_vars

\* a connection that subscribed once, when the first record of the file was
\* already stored, got the second record and not the first
C16_Witness ==
    \E c \in Conns : \E f \in Uploads :
        /\ conn[c].state = "open" /\ conn[c].subs = 1 /\ conn[c].subscribedFile = f
        /\ Len(EntriesOf(logEntries, f)) >= 2
        /\ \E i \in 1..Len(inbox[c]) :
              inbox[c][i].type = "logEntry" /\ inbox[c][i].data[1].id = EntryId(f, 2)
        /\ \A i \in 1..Len(inbox[c]) :
              inbox[c][i].type = "logEntry" => inbox[c][i].data[1].id # EntryId(f, 1)

\* the positions of the messages of a type in the inbox of connection c
Positions(c, type) == {i \in 1..Len(inbox[c]) : inbox[c][i].type = type}
\* the latest ack before position i of the inbox of c (0: none)
LastAckBefore(c, i) ==
    IF \E j \in Positions(c, "subscribed") : j < i
    THEN CHOOSE j \in Positions(c, "subscribed") :
            j < i /\ \A k \in Positions(c, "subscribed") : k < i => k <= j
    ELSE 0

\* C19: in every state a connection that has connected was sent exactly one
\* status message, before anything else; it was sent exactly one ack per
\* subscribe message it sent, the latest ack naming the file it is
\* subscribed to; and every logEntry message it was sent comes after an
\* ack, the latest ack before it naming the file of the record.
C19_Protocol ==
    \A c \in Conns :
        /\ Cardinality(Positions(c, "status")) = IF conn[c].state = "new" THEN 0 ELSE 1
        /\ conn[c].state # "new" => inbox[c][1] = StatusMsg
        /\ Cardinality(Positions(c, "subscribed")) = conn[c].subs
        /\ conn[c].subs >= 1 =>
              inbox[c][LastAckBefore(c, Len(inbox[c]) + 1)].fileName = conn[c].subscribedFile
        /\ \A i \in Positions(c, "logEntry") :
              /\ LastAckBefore(c, i) # 0
              /\ inbox[c][LastAckBefore(c, i)].fileName = inbox[c][i].fileName

\* a connection subscribed twice, to two files, and was sent a record
C19_Witness ==
    \E c \in Conns :
        /\ conn[c].subs = 2 /\ conn[c].prev # conn[c].subscribedFile
        /\ conn[c].prev # NoFile
        /\ Positions(c, "logEntry") # {}

\* C30: a message that is not JSON, or is not a subscribe with a fileName
\* that is not empty, leaves the subscription of every connection as it
\* was, puts no message (no ack) into any inbox, and no error leaves the
\* message handler: the server runs on.
C30_OtherMessagesIgnored ==
    [][\A c \in Conns : \A kind \in MessageKinds :
          Message(c, kind) =>
              /\ \A d \in Conns : conn'[d].subscribedFile = conn[d].subscribedFile
              /\ inbox' = inbox
              /\ ~conn'[c].raised
              /\ server' = server]_vars

-----------------------------------------------------------------------------
(* Reading: the claims *)

\* read(fileId, limit, offset) as a client makes it: GET /api/logs/:fileId
\* with both parameters given
read(fileId, limit, offset) ==
    GetLogsResponse(logEntries, fileId, Param(limit), Param(offset))

\* C10: in every state, for every file and all N, M >= 0, when the three
\* reads are answered, read(N, 0) followed by read(M, N) is read(N + M, 0).
C10_ReadsConcatenate ==
    \A f \in Uploads : \A N, M \in 0..MaxLimit :
        (/\ read(f, N, 0).status = 200
         /\ read(f, M, N).status = 200
         /\ read(f, N + M, 0).status = 200)
        => read(f, N, 0).body \o read(f, M, N).body = read(f, N + M, 0).body

\* the ids of a sequence of entries
Ids(es) == [i \in 1..Len(es) |-> es[i].id]

\* the records at the positions [offset, offset + limit) of a sequence, the
\* first position being 0; none for an offset outside the sequence
PositionsSlice(s, limit, offset) ==
    IF offset < 0 \/ offset >= Len(s) \/ limit <= 0 THEN <<>>
    ELSE SubSeq(s, offset + 1, Min(offset + limit, Len(s)))

\* C11: in every state, for every file, limit >= 0 and offset, a read that
\* is answered returns the records at the positions [offset, offset + limit)
\* in insertion order, and a read with an offset that is negative or beyond
\* the end is answered with the empty list.
C11_ReadIsPositionsSlice ==
    \A f \in Uploads : \A limit \in 0..MaxLimit : \A offset \in (0 - 1)..(MaxLines + 1) :
        LET r == getLogEntries(logEntries, f, limit, offset)
            s == EntriesOf(logEntries, f)
        IN  /\ ~r.threw => Ids(r.entries) = Ids(PositionsSlice(s, limit, offset))
            /\ (offset < 0 \/ offset >= Len(s)) => (~r.threw /\ r.entries = <<>>)

\* C13 (read): in every state every read of every file is answered: of a
\* file with records whatever their fields are, of a file without records,
\* of a file that was never created or was removed.
C13_ReadNeverFails ==
    \A f \in Uploads : \A limit \in 0..MaxLimit : \A offset \in 0..MaxLines :
        ~getLogEntries(logEntries, f, limit, offset).threw

-----------------------------------------------------------------------------
(* Statistics, clearing and deleting: the claims *)

\* how many of the entries of file f have this level
CountLevel(f, level) ==
    Cardinality({i \in 1..Len(EntriesOf(logEntries, f)) :
                    EntriesOf(logEntries, f)[i].level = level})

\* C12: in every state (after any appends, clears and removes) the answer
\* to a statistics request for a file is the number of records stored for
\* it, the number of them with level ERROR and the number with level WARN.
C12_StatisticsMatchStore ==
    \A f \in Uploads :
        GetStatsResponse(logEntries, f) =
            [status |-> 200,
             body |-> [total |-> Len(EntriesOf(logEntries, f)),
                       errors |-> CountLevel(f, "ERROR"),
                       warnings |-> CountLevel(f, "WARN")]]

\* a statistics request was answered, and its answer still stands, for an
\* ingested file of three records, an ERROR and a WARN record among them
C12_Witness ==
    /\ lastRead # <<>>
    /\ lastRead[1].route = "stats"
    /\ LET f == lastRead[1].fileId IN
       /\ up[f].pc = "done"
       /\ lastRead[1].response = GetStatsResponse(logEntries, f)
       /\ lastRead[1].response.body.errors >= 1
       /\ lastRead[1].response.body.warnings >= 1
       /\ lastRead[1].response.body.total = 3

\* C14: every step that clears file f leaves f without records, so that its
\* statistics are {0, 0, 0}, and leaves the metadata of every file and the
\* records of every other file as they were.
C14_ClearFrame ==
    [][\A f \in Uploads :
          ClearLogs(f) =>
              /\ EntriesOf(logEntries', f) = <<>>
              /\ GetStatsResponse(logEntries', f).body =
                     [total |-> 0, errors |-> 0, warnings |-> 0]
              /\ logFiles' = logFiles
              /\ \A g \in Uploads \ {f} :
                     EntriesOf(logEntries', g) = EntriesOf(logEntries, g)]_vars

\* a file that got records was cleared: it is there with its status and
\* without records, while the other file holds records
C14_Witness ==
    \E f \in Uploads : \E g \in Uploads \ {f} :
        /\ f \in DOMAIN logFiles /\ g \in DOMAIN logFiles
        /\ created[f] > 0
        /\ f \in DOMAIN logEntries /\ logEntries[f] = <<>>
        /\ Len(EntriesOf(logEntries, g)) >= 1

\* the file of upload f was created and is no longer in the store: it was
\* deleted
Deleted(f) == up[f].pc \notin {"idle", "rejected"} /\ f \notin DOMAIN logFiles

\* C15: in every state after the delete of a file the store holds no
\* metadata and no record for it, also when the delete came while the
\* ingestion of the file was running.
C15_DeletedStaysGone ==
    \A f \in Uploads : Deleted(f) => EntriesOf(logEntries, f) = <<>>

\* a file was ingested, with three records, and then deleted
C15_Witness ==
    \E f \in Uploads :
        /\ Deleted(f) /\ up[f].pc = "done" /\ created[f] = 3
        /\ f \notin DOMAIN logEntries

-----------------------------------------------------------------------------
(* The client: the claims *)

\* C20: when the server is reachable from some moment on, a client whose
\* socket closed with a code other than 1000 is eventually connected again,
\* also after reconnect attempts that failed.
C20_ReconnectsEventually ==
    (<>[](client[ClientSeq[1]].reachable))
        => ((client[ClientSeq[1]].ws = "closed" /\ client[ClientSeq[1]].code # 1000)
               ~> (client[ClientSeq[1]].ws = "open"))

\* C27: whenever a client's socket is open and no subscribe frame is on its
\* way, the server's connection for it is subscribed to the file the page
\* asked for last, also for a request made while the socket was not open and
\* for the subscription held before a reconnect.
C27_SubscriptionInEffect ==
    \A o \in ClientObjs :
        (client[o].ws = "open" /\ client[o].wanted # NoFile /\ client[o].frames = <<>>)
            => client[o].serverSub = client[o].wanted

\* C28: after disconnect() no reconnect timer waits and the client has no
\* socket that is connecting or open, in every later state.
C28_DisconnectIsFinal ==
    \A o \in ClientObjs :
        client[o].disconnected =>
            /\ client[o].reconnectTimeout # "pending"
            /\ client[o].timers = 0
            /\ client[o].ws \notin {"connecting", "open"}

\* C29: in every state, for every client object, currentDelay lies between
\* reconnectDelay and maxReconnectDelay, at most one reconnect timer waits
\* and at most one socket with handlers is live.
C29_ClientBounds ==
    \A o \in ClientObjs :
        /\ client[o].currentDelay >= ReconnectDelay
        /\ client[o].currentDelay <= MaxReconnectDelay
        /\ client[o].timers \in {0, 1}
        /\ client[o].sockets \in {0, 1}

\* a reconnect timer has run and doubled the delay, and the socket of its
\* attempt is live
C29_Witness ==
    \E o \in ClientObjs :
        /\ client[o].currentDelay > ReconnectDelay
        /\ client[o].reconnectTimeout = "fired"
        /\ client[o].sockets = 1

=============================================================================
